---- MODULE Spec2Model ----
(***************************************************************************)
(* Model of the Fahrschule Galaxy RAG assistant: the index loader          *)
(* (app/ingest.py), the RAG-with-evaluation pipeline (app/rag.py), the     *)
(* Postgres store (app/db.py) and the Streamlit script (app/app.py).       *)
(*                                                                         *)
(* Streamlit runs the script of every browser session in a thread of one   *)
(* process, so the module globals of rag.py (_client), the Chroma index    *)
(* and the database are shared by the sessions, and the steps of two       *)
(* sessions interleave.                                                    *)
(***************************************************************************)
EXTENDS Integers, Sequences, FiniteSets, TLC

\* ------------------------------------------------------------------ bounds
MaxQuestions == 2      \* questions asked over all sessions
MaxFeedback == 1       \* feedback clicks over all sessions
MaxFaq == 2            \* records of data/faq.json (SpecIndex)

\* --------------------------------------------------------------- constants
top_k == 3             \* rag.py: search_faq(query, collection, top_k=3)

Sessions == {"s1", "s2"}

None == "None"

\* ---------------------------------------------------------------- ingest.py
\* A FAQ entry of data/faq.json.
Faq(i, q, a, c) == [id |-> i, question |-> q, answer |-> a, category |-> c]

\* data/faq.json holding the list `data`.
File(data) == [exists |-> TRUE, valid |-> TRUE, data |-> data]

\* The file is absent (open() raises FileNotFoundError).
MISSING == [exists |-> FALSE, valid |-> FALSE, data |-> <<>>]

\* The file is no JSON (json.load raises JSONDecodeError).
MALFORMED == [exists |-> TRUE, valid |-> FALSE, data |-> <<>>]

\* A loader that keys each document by its question, not by the record's id.
DocumentKeyedByQuestion(faq) ==
    [id |-> faq.question,
     document |-> <<"Question: ", faq.question, "\nAnswer: ", faq.answer>>,
     metadata |-> [category |-> faq.category, question |-> faq.question]]

\* text = f"Question: {faq['question']}\nAnswer: {faq['answer']}", with the
\* metadata and the id of the record (the loop of load_index).
Document(faq) ==
    [id |-> faq.id,
     document |-> <<"Question: ", faq.question, "\nAnswer: ", faq.answer>>,
     metadata |-> [category |-> faq.category, question |-> faq.question]]

RECURSIVE Prepare(_)
Prepare(faq_data) ==
    IF faq_data = <<>> THEN <<>>
    ELSE <<Document(Head(faq_data))>> \o Prepare(Tail(faq_data))

Ids(docs) == {docs[i].id : i \in DOMAIN docs}

HasDuplicateIds(docs) ==
    \E i, j \in DOMAIN docs : i # j /\ docs[i].id = docs[j].id

RECURSIVE SkipExisting(_, _)
SkipExisting(docs, present) ==
    IF docs = <<>> THEN <<>>
    ELSE IF Head(docs).id \in present
         THEN SkipExisting(Tail(docs), present)
         ELSE <<Head(docs)>> \o SkipExisting(Tail(docs), present)

\* collection.add(documents, metadatas, ids) of a Chroma PersistentClient
\* collection: an empty batch (ValueError) and a batch that repeats an id
\* (DuplicateIDError) are refused; a record whose id the collection already
\* holds is skipped, the stored one is kept.
ChromaAdd(index, docs) ==
    IF docs = <<>> \/ HasDuplicateIds(docs)
    THEN [raised |-> TRUE, index |-> index]
    ELSE [raised |-> FALSE, index |-> index \o SkipExisting(docs, Ids(index))]

\* load_index(): the collection handle, or None after any exception, and the
\* persistent index it leaves.
load_index(source, index) ==
    IF ~source.exists \/ ~source.valid
    THEN [collection |-> None, index |-> index]
    ELSE LET added == ChromaAdd(index, Prepare(source.data))
         IN  IF added.raised
             THEN [collection |-> None, index |-> index]
             ELSE [collection |-> "fahrschule_faq", index |-> added.index]

\* ------------------------------------------------------------------ rag.py
\* search_faq(query, collection, top_k): collection.query(...)  on the handle
\* (None has no attribute query: AttributeError), then one context string
\* f"Category: {meta['category']}\n{doc}" per hit. The index answers with its
\* min(top_k, count) nearest documents; the ranking is the index's own and is
\* taken here in storage order.
search_faq(query, collection, index, k) ==
    IF collection = None
    THEN [raised |-> "AttributeError", contexts |-> <<>>]
    ELSE LET n == IF Len(index) < k THEN Len(index) ELSE k
         IN  [raised |-> None,
              contexts |-> [i \in 1..n |->
                  <<"Category: ", index[i].metadata.category, "\n", index[i].document>>]]

\* build_prompt(query, search_results): " ".join(search_results) put into
\* prompt_template with the question.
build_prompt(query, search_results) ==
    [template |-> "prompt_template", question |-> query, context |-> search_results]

\* The two model names of the UI's selectbox (app.py: model_select).
ModelOptions == {"gemini-2.5-flash", "gemini-1.5-pro"}

\* llm(prompt, model): client.models.generate_content(model="gemini-2.5-flash",
\* contents=prompt): the model the request names.
RequestedModel(model) == "gemini-2.5-flash"

\* --- the evaluator's reply, as a sequence of pieces of text
\* Three backticks, the fence of a code block.
TICKS == "<fence>"
JSONWORD == "json"
WS == " "
ObjRelevant == "{Relevance: RELEVANT, Explanation: fits}"
ObjPartly == "{Relevance: PARTLY_RELEVANT, Explanation: partly}"
ObjNon == "{Relevance: NON_RELEVANT, Explanation: off topic}"
ObjOutOfEnum == "{Relevance: SOMEWHAT_RELEVANT, Explanation: so-so}"
ObjEmpty == "{}"
ListDoc == "[]"
Garbage == "I think the answer is fine"

Absent == "<absent>"

\* What json.loads makes of one complete JSON document.
JsonValue(piece) ==
    CASE piece = ObjRelevant ->
           [type |-> "dict", Relevance |-> "RELEVANT", Explanation |-> "fits"]
      [] piece = ObjPartly ->
           [type |-> "dict", Relevance |-> "PARTLY_RELEVANT", Explanation |-> "partly"]
      [] piece = ObjNon ->
           [type |-> "dict", Relevance |-> "NON_RELEVANT", Explanation |-> "off topic"]
      [] piece = ObjOutOfEnum ->
           [type |-> "dict", Relevance |-> "SOMEWHAT_RELEVANT", Explanation |-> "so-so"]
      [] piece = ObjEmpty ->
           [type |-> "dict", Relevance |-> Absent, Explanation |-> Absent]
      [] piece = ListDoc ->
           [type |-> "list", Relevance |-> Absent, Explanation |-> Absent]

JsonDocuments == {ObjRelevant, ObjPartly, ObjNon, ObjOutOfEnum, ObjEmpty, ListDoc}

\* The raw text itself, which is what a str is to the caller.
StrValue == [type |-> "str", Relevance |-> Absent, Explanation |-> Absent]

RECURSIVE LStrip(_)
LStrip(text) ==
    IF text # <<>> /\ Head(text) = WS THEN LStrip(Tail(text)) ELSE text

RECURSIVE RStrip(_)
RStrip(text) ==
    IF text # <<>> /\ text[Len(text)] = WS
    THEN RStrip(SubSeq(text, 1, Len(text) - 1))
    ELSE text

\* str.strip()
Strip(text) == RStrip(LStrip(text))

\* sep in text
Contains(text, sep) ==
    \E i \in 1..(Len(text) - Len(sep) + 1) : SubSeq(text, i, i + Len(sep) - 1) = sep

\* text.split(sep), left to right, without overlaps.
RECURSIVE Split(_, _)
Split(text, sep) ==
    IF ~Contains(text, sep) THEN <<text>>
    ELSE LET i == CHOOSE k \in 1..(Len(text) - Len(sep) + 1) :
                     /\ SubSeq(text, k, k + Len(sep) - 1) = sep
                     /\ \A j \in 1..(k - 1) : SubSeq(text, j, j + Len(sep) - 1) # sep
         IN  <<SubSeq(text, 1, i - 1)>>
                 \o Split(SubSeq(text, i + Len(sep), Len(text)), sep)

\* json.loads(json_str): the text must be one JSON document, blanks around it
\* allowed; anything else raises JSONDecodeError.
json_loads(json_str) ==
    LET doc == Strip(json_str)
    IN  IF Len(doc) = 1 /\ doc[1] \in JsonDocuments
        THEN [raised |-> None, value |-> JsonValue(doc[1])]
        ELSE [raised |-> "JSONDecodeError", value |-> StrValue]

\* The part of evaluate_rag_response after the model call: the two fenced
\* branches compute json_str and leave `evaluation` the raw text; only the
\* unfenced branch parses.
ParseEvaluation(evaluation) ==
    IF Contains(evaluation, <<TICKS, JSONWORD>>)
    THEN LET json_str == Strip(Split(Split(evaluation, <<TICKS, JSONWORD>>)[2], <<TICKS>>)[1])
         IN  [raised |-> None, value |-> StrValue]
    ELSE IF Contains(evaluation, <<TICKS>>)
    THEN LET json_str == Strip(Split(Split(evaluation, <<TICKS>>)[2], <<TICKS>>)[1])
         IN  [raised |-> None, value |-> StrValue]
    ELSE json_loads(Strip(evaluation))

\* dict.get(key, default); a str or a list has no attribute get.
Get(value, key, default) ==
    IF value.type # "dict" THEN [raised |-> "AttributeError", value |-> default]
    ELSE IF key = "Relevance"
         THEN [raised |-> None,
               value |-> IF value.Relevance = Absent THEN default ELSE value.Relevance]
         ELSE [raised |-> None,
               value |-> IF value.Explanation = Absent THEN default ELSE value.Explanation]

NoData ==
    [answer |-> "", model_used |-> "", response_time |-> 0,
     relevance |-> "", relevance_explanation |-> ""]

\* The answer_data dictionary of rag_with_evaluation.
AnswerData(answer, model, took, relevance) ==
    LET rel == Get(relevance, "Relevance", "UNKNOWN")
        exp == Get(relevance, "Explanation", "Failed to parse evaluation")
    IN  IF rel.raised # None THEN [raised |-> rel.raised, data |-> NoData]
        ELSE IF exp.raised # None THEN [raised |-> exp.raised, data |-> NoData]
        ELSE [raised |-> None,
              data |-> [answer |-> answer, model_used |-> model, response_time |-> took,
                        relevance |-> rel.value, relevance_explanation |-> exp.value]]

\* A pipeline that stops the clock before the evaluation.
PipelineTimedBeforeEvaluation ==
    <<"retrieve", "build", "generate", "end", "evaluate", "assemble", "done">>

\* The order of the statements of rag_with_evaluation: search_faq,
\* build_prompt, llm (the answer), evaluate_rag_response, t1 = time(), the
\* answer_data dictionary, return.
Pipeline == <<"retrieve", "build", "generate", "evaluate", "end", "assemble", "done">>

\* The statement after `step`.
After(step) ==
    LET i == CHOOSE k \in DOMAIN Pipeline : Pipeline[k] = step
    IN  Pipeline[i + 1]

\* ------------------------------------------------------------------- db.py
\* Python's None given for a column: SQL NULL. A PRIMARY KEY column refuses it;
\* feedback.rag_query_id has no NOT NULL, and a NULL reference is not checked
\* against rag_queries.
NULL == 0

\* init_db(): both tables dropped and created again, empty; the SERIAL of
\* feedback.id starts again with its table.
init_db(database) == [rag_queries |-> {}, feedback |-> {}, serial |-> 1]

\* save_query(query_id, question, answer_data, timestamp): one INSERT INTO
\* rag_queries; id is the PRIMARY KEY.
save_query(database, query_id, question, answer_data, timestamp) ==
    IF query_id = NULL
    THEN [raised |-> "NotNullViolation", db |-> database]
    ELSE IF \E r \in database.rag_queries : r.id = query_id
    THEN [raised |-> "UniqueViolation", db |-> database]
    ELSE [raised |-> None,
          db |-> [database EXCEPT !.rag_queries = @ \cup
                    {[id |-> query_id, question |-> question,
                      answer |-> answer_data.answer,
                      model_used |-> answer_data.model_used,
                      response_time |-> answer_data.response_time,
                      relevance |-> answer_data.relevance,
                      relevance_explanation |-> answer_data.relevance_explanation,
                      timestamp |-> timestamp]}]]

\* save_feedback(query_id, feedback, timestamp): one INSERT INTO feedback;
\* rag_query_id REFERENCES rag_queries(id). The SERIAL value is drawn before the
\* reference is checked and is not given back when the INSERT fails.
save_feedback(database, query_id, value, timestamp) ==
    IF query_id # NULL /\ ~\E r \in database.rag_queries : r.id = query_id
    THEN [raised |-> "ForeignKeyViolation", db |-> [database EXCEPT !.serial = @ + 1]]
    ELSE [raised |-> None,
          db |-> [database EXCEPT
                    !.feedback = @ \cup {[id |-> database.serial, rag_query_id |-> query_id,
                                          feedback |-> value, timestamp |-> timestamp]},
                    !.serial = @ + 1]]

\* ------------------------------------------------------------ program state
VARIABLES
    apiKey,         \* os.getenv("GOOGLE_API_KEY") is set
    faq_json,       \* the content of data/faq.json, or MISSING
    imported,       \* rag.py has been imported by the process
    collection,     \* rag.py: collection = ingest.load_index()
    client,         \* rag.py: _client; 0 is None, n > 0 the n-th client made
    constructed,    \* how many genai.Client objects were constructed
    keyReads,       \* how many times get_client read GOOGLE_API_KEY
    chroma_db,      \* the documents of the persistent collection fahrschule_faq
    loads,          \* how many times load_index has run
    db,             \* the Postgres tables rag_queries and feedback
    nextId,         \* the next value uuid.uuid4() gives
    now,            \* datetime.now(tz), in saves
    session_state,  \* st.session_state of each browser session
    pc,             \* where each session's script is
    loc,            \* the locals of each session's rag_with_evaluation call
    asked,          \* questions asked so far
    clicks,         \* feedback buttons clicked so far
    call            \* the last direct call of a function of db.py and its outcome

vars ==
    <<apiKey, faq_json, imported, collection, client, constructed, keyReads,
      chroma_db, loads, db, nextId, now, session_state, pc, loc, asked, clicks, call>>

\* Inputs of the model.
Questions == {"What does a licence cost?"}
Answers == {"A licence costs 1500 EUR."}
FaqOK ==
    File(<<Faq("1", "How much does a license cost?", "1500 EUR", "pricing"),
      Faq("2", "When are the theory lessons?", "Mondays", "schedule")>>)
FaqSources == {FaqOK, MISSING}
\* Replies of the evaluator: the asked-for JSON, a classification outside
\* the three values, JSON without the two keys, JSON that is no object, prose,
\* and fenced blocks with and without the json tag, around JSON and around prose.
Replies ==
    {<<ObjRelevant>>, <<ObjOutOfEnum>>, <<WS, ObjEmpty, WS>>, <<ListDoc>>, <<Garbage>>,
     <<TICKS, JSONWORD, WS, ObjPartly, WS, TICKS>>, <<TICKS, ObjNon, TICKS>>,
     <<TICKS, JSONWORD, Garbage, TICKS>>}

NoPrompt == [template |-> "", question |-> "", context |-> <<>>]
NoEvaluation == [type |-> "none", Relevance |-> Absent, Explanation |-> Absent]
NoLocals ==
    [query |-> "", model |-> "", t0 |-> 0, t1 |-> 0, clk |-> 0, took |-> 0,
     search_results |-> <<>>, prompt |-> NoPrompt, answer |-> "", reply |-> <<>>,
     evaluation |-> NoEvaluation, answer_data |-> NoData, llm |-> "",
     steps |-> <<>>, calls |-> <<>>, failedIn |-> "", error |-> None]
NoSession == [db_initialized |-> FALSE, messages |-> <<>>, collection |-> None]
NoCall ==
    [op |-> "", query_id |-> 0, raised |-> None, limit |-> 0, relevance |-> None,
     rows |-> <<>>]

\* The process has not started; the index directory and the database are new.
Start(keys, sources) ==
    /\ apiKey \in keys
    /\ faq_json \in sources
    /\ imported = FALSE
    /\ collection = None
    /\ client = 0
    /\ constructed = 0
    /\ keyReads = 0
    /\ chroma_db = <<>>
    /\ loads = 0
    /\ db = [rag_queries |-> {}, feedback |-> {}, serial |-> 1]
    /\ nextId = 1
    /\ now = 1
    /\ session_state = [s \in Sessions |-> NoSession]
    /\ pc = [s \in Sessions |-> "new"]
    /\ loc = [s \in Sessions |-> NoLocals]
    /\ asked = 0
    /\ clicks = 0
    /\ call = NoCall

Init == Start(BOOLEAN, FaqSources)

\* An exception leaves rag_with_evaluation: nothing in rag.py catches it.
Raise(s, locals, err) ==
    /\ pc' = [pc EXCEPT ![s] = "failed"]
    /\ loc' = [loc EXCEPT ![s] = [locals EXCEPT !.failedIn = pc[s], !.error = err]]

\* The statement `step` is finished and the next one begins; llm() begins with
\* get_client()'s test.
Goto(s, locals, step) ==
    /\ pc' = [pc EXCEPT ![s] = After(step)]
    /\ loc' = [loc EXCEPT ![s] =
                 [locals EXCEPT !.steps = Append(@, step),
                                !.llm = IF After(step) \in {"generate", "evaluate"}
                                        THEN "check" ELSE ""]]

\* app.py 1-26, the first run of a session's script: the imports (the first
\* session's run imports db and rag, and rag's import runs load_index),
\* init_db() under the db_initialized guard, the messages list and the
\* session's own load_index(). db's import runs check_timezone, whose INSERT
\* and DELETE of the row 'test' are one transaction and leave the tables as
\* they were.
SessionStart(s) ==
    /\ pc[s] = "new"
    /\ LET imp == IF imported THEN [collection |-> collection, index |-> chroma_db]
                  ELSE load_index(faq_json, chroma_db)
           ses == load_index(faq_json, imp.index)
       IN  /\ imported' = TRUE
           /\ collection' = imp.collection
           /\ chroma_db' = ses.index
           /\ loads' = loads + (IF imported THEN 1 ELSE 2)
           /\ session_state' = [session_state EXCEPT ![s] =
                  [db_initialized |-> TRUE, messages |-> <<>>, collection |-> ses.collection]]
    /\ db' = init_db(db)
    /\ pc' = [pc EXCEPT ![s] = "idle"]
    /\ UNCHANGED <<call, apiKey, faq_json, client, constructed, keyReads, nextId, now, loc,
                   asked, clicks>>

\* app.py 78-97 and rag.py 126: the user's message is appended and
\* rag_with_evaluation starts with t0 = time().
Ask(s, question, model) ==
    /\ pc[s] = "idle"
    /\ asked < MaxQuestions
    /\ asked' = asked + 1
    /\ session_state' = [session_state EXCEPT ![s].messages =
           Append(@, [role |-> "user", content |-> question, query_id |-> 0, feedback |-> 0])]
    /\ pc' = [pc EXCEPT ![s] = "retrieve"]
    /\ loc' = [loc EXCEPT ![s] =
           [NoLocals EXCEPT !.query = question, !.model = model, !.t0 = 0,
                            !.steps = <<"start">>]]
    /\ UNCHANGED <<call, apiKey, faq_json, imported, collection, client, constructed, keyReads,
                   chroma_db, loads, db, nextId, now, clicks>>

\* rag.py 129: search_results = search_faq(query, collection, top_k=3). `fault`
\* is an exception of the embedding model or of the index.
Retrieve(s, fault) ==
    /\ pc[s] = "retrieve"
    /\ LET r == search_faq(loc[s].query, session_state[s].collection, chroma_db, top_k)
       IN  IF fault THEN Raise(s, loc[s], "RuntimeError")
           ELSE IF r.raised # None THEN Raise(s, loc[s], r.raised)
           ELSE Goto(s, [loc[s] EXCEPT !.search_results = r.contexts, !.clk = @ + 1],
                     "retrieve")
    /\ UNCHANGED <<call, apiKey, faq_json, imported, collection, client, constructed, keyReads,
                   chroma_db, loads, db, nextId, now, session_state, asked, clicks>>

\* rag.py 132: prompt = build_prompt(query, search_results). `fault` is an
\* exception raised inside it (MemoryError).
BuildPrompt(s, fault) ==
    /\ pc[s] = "build"
    /\ IF fault THEN Raise(s, loc[s], "MemoryError")
       ELSE Goto(s, [loc[s] EXCEPT !.prompt = build_prompt(loc[s].query, loc[s].search_results)],
                 "build")
    /\ UNCHANGED <<call, apiKey, faq_json, imported, collection, client, constructed, keyReads,
                   chroma_db, loads, db, nextId, now, session_state, asked, clicks>>

\* A get_client that reads the key and builds a client on every call.
LlmCheckAlwaysInit(s) ==
    /\ pc[s] \in {"generate", "evaluate"}
    /\ loc[s].llm = "check"
    /\ loc' = [loc EXCEPT ![s].llm = "init"]
    /\ UNCHANGED <<call, apiKey, faq_json, imported, collection, client, constructed, keyReads,
                   chroma_db, loads, db, nextId, now, session_state, pc, asked, clicks>>

\* rag.py 23: get_client()'s test `if _client is None`.
LlmCheck(s) ==
    /\ pc[s] \in {"generate", "evaluate"}
    /\ loc[s].llm = "check"
    /\ loc' = [loc EXCEPT ![s].llm = IF client = 0 THEN "init" ELSE "call"]
    /\ UNCHANGED <<call, apiKey, faq_json, imported, collection, client, constructed, keyReads,
                   chroma_db, loads, db, nextId, now, session_state, pc, asked, clicks>>

\* rag.py 24-27: the key is read; without it ValueError; with it a client is
\* constructed and stored in _client.
LlmInit(s) ==
    /\ pc[s] \in {"generate", "evaluate"}
    /\ loc[s].llm = "init"
    /\ keyReads' = keyReads + 1
    /\ IF ~apiKey
       THEN /\ Raise(s, loc[s], "ValueError")
            /\ UNCHANGED <<client, constructed>>
       ELSE /\ constructed' = constructed + 1
            /\ client' = constructed + 1
            /\ loc' = [loc EXCEPT ![s].llm = "call"]
            /\ UNCHANGED pc
    /\ UNCHANGED <<call, apiKey, faq_json, imported, collection, chroma_db, loads, db, nextId,
                   now, session_state, asked, clicks>>

\* The request llm() sends: which model it names and which client sends it
\* (get_client returns the _client of that moment).
Request(s) ==
    [purpose |-> pc[s], model |-> RequestedModel(loc[s].model), client |-> client]

\* rag.py 135 with 100-103: the answer is generated. `fault` is a failure of
\* the transport or of the API.
GenerateCall(s, fault, text) ==
    /\ pc[s] = "generate"
    /\ loc[s].llm = "call"
    /\ LET sent == [loc[s] EXCEPT !.calls = Append(@, Request(s)), !.clk = @ + 1]
       IN  IF fault THEN Raise(s, sent, "APIError")
           ELSE Goto(s, [sent EXCEPT !.answer = text], "generate")
    /\ UNCHANGED <<call, apiKey, faq_json, imported, collection, client, constructed, keyReads,
                   chroma_db, loads, db, nextId, now, session_state, asked, clicks>>

\* rag.py 138 with 110-119: the evaluation is requested and its reply parsed.
EvaluateCall(s, fault, reply) ==
    /\ pc[s] = "evaluate"
    /\ loc[s].llm = "call"
    /\ LET sent == [loc[s] EXCEPT !.calls = Append(@, Request(s)), !.clk = @ + 1]
           parsed == ParseEvaluation(reply)
       IN  IF fault THEN Raise(s, sent, "APIError")
           ELSE IF parsed.raised # None
           THEN Raise(s, [sent EXCEPT !.reply = reply], parsed.raised)
           ELSE Goto(s, [sent EXCEPT !.reply = reply, !.evaluation = parsed.value],
                     "evaluate")
    /\ UNCHANGED <<call, apiKey, faq_json, imported, collection, client, constructed, keyReads,
                   chroma_db, loads, db, nextId, now, session_state, asked, clicks>>

\* rag.py 140-141: t1 = time(); took = t1 - t0.
StampEnd(s) ==
    /\ pc[s] = "end"
    /\ Goto(s, [loc[s] EXCEPT !.t1 = loc[s].clk, !.took = loc[s].clk - loc[s].t0], "end")
    /\ UNCHANGED <<call, apiKey, faq_json, imported, collection, client, constructed, keyReads,
                   chroma_db, loads, db, nextId, now, session_state, asked, clicks>>

\* rag.py 144-153: answer_data is put together and returned.
Assemble(s) ==
    /\ pc[s] = "assemble"
    /\ LET d == AnswerData(loc[s].answer, loc[s].model, loc[s].took, loc[s].evaluation)
       IN  IF d.raised # None THEN Raise(s, loc[s], d.raised)
           ELSE Goto(s, [loc[s] EXCEPT !.answer_data = d.data], "assemble")
    /\ UNCHANGED <<call, apiKey, faq_json, imported, collection, client, constructed, keyReads,
                   chroma_db, loads, db, nextId, now, session_state, asked, clicks>>

\* A handler that catches the exception and answers with an apology.
AfterExceptionApologise(messages) ==
    Append(messages, [role |-> "assistant", content |-> "Sorry, something went wrong.",
                      query_id |-> 0, feedback |-> 0])

\* The exception of rag_with_evaluation is not caught in app.py either: the
\* run of the script ends at line 93 and the messages stay as they are.
AfterException(messages) == messages

\* app.py 99-140: uuid4, save_query, the assistant's message.
Deliver(s) ==
    /\ pc[s] = "done"
    /\ LET query_id == nextId
           saved == save_query(db, query_id, loc[s].query, loc[s].answer_data, now)
       IN  IF saved.raised # None
           THEN /\ Raise(s, loc[s], saved.raised)
                /\ UNCHANGED <<db, session_state>>
           ELSE /\ db' = saved.db
                /\ session_state' = [session_state EXCEPT ![s].messages =
                       Append(@, [role |-> "assistant", content |-> loc[s].answer_data.answer,
                                  query_id |-> query_id, feedback |-> 0])]
                /\ pc' = [pc EXCEPT ![s] = "idle"]
                /\ loc' = [loc EXCEPT ![s] = NoLocals]
    /\ nextId' = nextId + 1
    /\ now' = now + 1
    /\ UNCHANGED <<call, apiKey, faq_json, imported, collection, client, constructed, keyReads,
                   chroma_db, loads, asked, clicks>>

\* The run of the script that raised is over; the session takes the next input.
Abort(s) ==
    /\ pc[s] = "failed"
    /\ session_state' = [session_state EXCEPT ![s].messages = AfterException(@)]
    /\ pc' = [pc EXCEPT ![s] = "idle"]
    /\ loc' = [loc EXCEPT ![s] = NoLocals]
    /\ UNCHANGED <<call, apiKey, faq_json, imported, collection, client, constructed, keyReads,
                   chroma_db, loads, db, nextId, now, asked, clicks>>

\* app.py 55-69: a feedback button of the assistant message idx. When
\* save_feedback raises, the run ends before the message is marked.
Feedback(s, idx, value) ==
    /\ pc[s] = "idle"
    /\ clicks < MaxFeedback
    /\ idx \in DOMAIN session_state[s].messages
    /\ session_state[s].messages[idx].role = "assistant"
    /\ session_state[s].messages[idx].query_id # 0
    /\ LET saved == save_feedback(db, session_state[s].messages[idx].query_id, value, now)
       IN  /\ db' = saved.db
           /\ session_state' =
                  IF saved.raised # None THEN session_state
                  ELSE [session_state EXCEPT ![s].messages[idx].feedback = value]
    /\ clicks' = clicks + 1
    /\ now' = now + 1
    /\ UNCHANGED <<call, apiKey, faq_json, imported, collection, client, constructed, keyReads,
                   chroma_db, loads, nextId, pc, loc, asked>>

\* app.py 143-145: New Conversation.
NewConversation(s) ==
    /\ pc[s] = "idle"
    /\ session_state[s].messages # <<>>
    /\ session_state' = [session_state EXCEPT ![s].messages = <<>>]
    /\ UNCHANGED <<call, apiKey, faq_json, imported, collection, client, constructed, keyReads,
                   chroma_db, loads, db, nextId, now, pc, loc, asked, clicks>>

\* What one session's script does.
Step(s) ==
    \/ SessionStart(s)
    \/ \E q \in Questions, m \in ModelOptions : Ask(s, q, m)
    \/ \E fault \in BOOLEAN : Retrieve(s, fault)
    \/ \E fault \in BOOLEAN : BuildPrompt(s, fault)
    \/ LlmCheck(s)
    \/ LlmInit(s)
    \/ \E fault \in BOOLEAN, text \in Answers : GenerateCall(s, fault, text)
    \/ \E fault \in BOOLEAN, reply \in Replies : EvaluateCall(s, fault, reply)
    \/ StampEnd(s)
    \/ Assemble(s)
    \/ Deliver(s)
    \/ Abort(s)
    \/ \E idx \in 1..(2 * MaxQuestions), value \in {1, -1} : Feedback(s, idx, value)
    \/ NewConversation(s)

Next == \E s \in Sessions : Step(s)

\* Every browser session is a thread of the one Streamlit process.
Spec == Init /\ [][Next]_vars

\* One browser session: the script's runs follow one another.
NextSolo == Step("s1")

SpecSolo == Init /\ [][NextSolo]_vars

\* ------------------------------------------------- load_index, run after run
MaxLoads == 3          \* runs of load_index against the same index directory

FaqRecords == {Faq(i, q, "answer", "general") : i \in {"1", "2", "3"}, q \in {"q", "r"}}

\* The files load_index may find: every list of up to MaxFaq records, well
\* formed or with a repeated id, no file, and a file that is no JSON.
IndexSources ==
    {File(data) : data \in UNION {[1..n -> FaqRecords] : n \in 0..MaxFaq}}
        \cup {MISSING, MALFORMED}

InitIndex == Start({TRUE}, IndexSources)

\* rag.py 30, at each start of the process: collection = ingest.load_index().
LoadIndexRun ==
    /\ loads < MaxLoads
    /\ LET r == load_index(faq_json, chroma_db)
       IN  /\ collection' = r.collection
           /\ chroma_db' = r.index
    /\ loads' = loads + 1
    /\ imported' = TRUE
    /\ UNCHANGED <<call, apiKey, faq_json, client, constructed, keyReads, db, nextId, now,
                   session_state, pc, loc, asked, clicks>>

NextIndex == LoadIndexRun

SpecIndex == InitIndex /\ [][NextIndex]_vars

\* ------------------------------------------- db.py, called row after row
MaxSerial == 2         \* values feedback's SERIAL gives out
MaxLimit == 2          \* the limit given to get_recent_queries

QueryIds == {1, 2}
Timestamps == {1, 2}
StoreRelevance == {"RELEVANT", "NON_RELEVANT"}

\* rag_queries rq LEFT JOIN feedback f ON rq.id = f.rag_query_id: one row per
\* feedback row of the query, and one row with a NULL feedback for a query that
\* has none. fid tells the joined rows of one query apart.
Joined(database) ==
    {[query |-> j[1], fid |-> j[2].id, feedback |-> j[2].feedback] :
        j \in {m \in database.rag_queries \X database.feedback :
                  m[2].rag_query_id # NULL /\ m[1].id = m[2].rag_query_id}}
    \cup
    {[query |-> rq, fid |-> 0, feedback |-> NULL] :
        rq \in {r \in database.rag_queries :
                   ~\E f \in database.feedback :
                       f.rag_query_id # NULL /\ f.rag_query_id = r.id}}

\* get_recent_queries(limit, relevance): the joined rows, those of the given
\* relevance when one is given, ORDER BY rq.timestamp DESC LIMIT limit. Rows of
\* equal timestamp come in any order, so this is the set of possible results.
get_recent_queries(database, limit, relevance) ==
    LET rows == IF relevance # None
                THEN {j \in Joined(database) : j.query.relevance = relevance}
                ELSE Joined(database)
        n == Cardinality(rows)
        k == IF limit < n THEN limit ELSE n
        ordered == {o \in [1..n -> rows] :
                       /\ \A a, b \in 1..n : a # b => o[a] # o[b]
                       /\ \A a, b \in 1..n :
                              a < b => o[a].query.timestamp >= o[b].query.timestamp}
    IN  {SubSeq(o, 1, k) : o \in ordered}

StoreQuestion == "What does a licence cost?"

StoreData(relevance) ==
    [answer |-> "A licence costs 1500 EUR.", model_used |-> "gemini-2.5-flash",
     response_time |-> 3, relevance |-> relevance,
     relevance_explanation |-> "fits"]

StoreUnchanged ==
    UNCHANGED <<apiKey, faq_json, imported, collection, client, constructed, keyReads,
                chroma_db, loads, nextId, now, session_state, pc, loc, asked, clicks>>

InitStore == Start({TRUE}, {FaqOK})

\* db.init_db()
CallInitDb ==
    /\ db.rag_queries # {} \/ db.feedback # {}
    /\ db' = init_db(db)
    /\ call' = [NoCall EXCEPT !.op = "init_db"]
    /\ StoreUnchanged

\* db.save_query(query_id, question, answer_data, timestamp)
CallSaveQuery(query_id, relevance, timestamp) ==
    /\ LET saved == save_query(db, query_id, StoreQuestion, StoreData(relevance),
                               timestamp)
       IN  /\ db' = saved.db
           /\ call' = [NoCall EXCEPT !.op = "save_query", !.query_id = query_id,
                                     !.raised = saved.raised]
    /\ StoreUnchanged

\* db.save_feedback(query_id, feedback, timestamp)
CallSaveFeedback(query_id, value, timestamp) ==
    /\ db.serial <= MaxSerial
    /\ LET saved == save_feedback(db, query_id, value, timestamp)
       IN  /\ db' = saved.db
           /\ call' = [NoCall EXCEPT !.op = "save_feedback", !.query_id = query_id,
                                     !.raised = saved.raised]
    /\ StoreUnchanged

\* db.get_recent_queries(limit, relevance)
CallGetRecent(limit, relevance) ==
    /\ \E rows \in get_recent_queries(db, limit, relevance) :
          call' = [NoCall EXCEPT !.op = "get_recent_queries", !.limit = limit,
                                 !.relevance = relevance, !.rows = rows]
    /\ UNCHANGED db
    /\ StoreUnchanged

NextStore ==
    \/ CallInitDb
    \/ \E q \in QueryIds \cup {NULL}, r \in StoreRelevance, t \in Timestamps :
          CallSaveQuery(q, r, t)
    \/ \E q \in QueryIds \cup {NULL}, v \in {1, -1} : CallSaveFeedback(q, v, now)
    \/ \E l \in 1..MaxLimit, r \in StoreRelevance \cup {None} : CallGetRecent(l, r)

\* The functions of db.py called in any order by any caller.
SpecStore == InitStore /\ [][NextStore]_vars

\* ------------------------------------------------------------------ claims
FullTrace == <<"start", "retrieve", "build", "generate", "evaluate", "end", "assemble">>
RelevanceValues == {"RELEVANT", "PARTLY_RELEVANT", "NON_RELEVANT", "UNKNOWN"}

\* The raw reply is itself one JSON object with the keys Relevance and Explanation.
TwoKeyJson(reply) ==
    LET parsed == json_loads(reply)
    IN  /\ parsed.raised = None
        /\ parsed.value.type = "dict"
        /\ parsed.value.Relevance # Absent
        /\ parsed.value.Explanation # Absent

\* C1: whatever reply of the evaluator is not valid JSON with the two keys,
\* evaluation and assembly raise nothing and the record has relevance UNKNOWN,
\* the explanation "Failed to parse evaluation" and the generated answer.
C1_MalformedReplyGivesUnknown ==
    \A s \in Sessions :
        (loc[s].reply # <<>> /\ ~TwoKeyJson(loc[s].reply)) =>
            /\ pc[s] # "failed"
            /\ pc[s] = "done" =>
                  /\ loc[s].answer_data.relevance = "UNKNOWN"
                  /\ loc[s].answer_data.relevance_explanation = "Failed to parse evaluation"
                  /\ loc[s].answer_data.answer = loc[s].answer

\* C2: an invocation that reaches DONE ran START, RETRIEVE, BUILD_PROMPT,
\* GENERATE, EVALUATE, the end timestamp and ASSEMBLE once each, in this
\* order; it sent two requests, the generation and then the evaluation; and the
\* reported response_time is t1 - t0, which spans the retrieval and both
\* requests (one tick of the clock each).
C2_StepsInOrder ==
    \A s \in Sessions :
        pc[s] = "done" =>
            /\ loc[s].steps = FullTrace
            /\ Len(loc[s].calls) = 2
            /\ loc[s].calls[1].purpose = "generate"
            /\ loc[s].calls[2].purpose = "evaluate"
            /\ loc[s].answer_data.response_time = loc[s].t1 - loc[s].t0
            /\ loc[s].t1 - loc[s].t0 = 3

C2_Witness == \E s \in Sessions : pc[s] = "done" /\ loc[s].answer_data.relevance = "RELEVANT"

\* The invocation of session s failed in RETRIEVE, BUILD_PROMPT or GENERATE.
FailedEarly(s) == pc[s] = "failed" /\ loc[s].failedIn \in {"retrieve", "build", "generate"}

StepsBefore(step) ==
    CASE step = "retrieve" -> <<"start">>
      [] step = "build" -> <<"start", "retrieve">>
      [] step = "generate" -> <<"start", "retrieve", "build">>

C3_NothingLater ==
    \A s \in Sessions :
        FailedEarly(s) =>
            /\ loc[s].error # None
            /\ loc[s].steps = StepsBefore(loc[s].failedIn)
            /\ loc[s].answer_data = NoData
            /\ \A i \in DOMAIN loc[s].calls : loc[s].calls[i].purpose # "evaluate"
            /\ session_state[s].messages # <<>>
            /\ session_state[s].messages[Len(session_state[s].messages)].role = "user"

C3_NothingSaved ==
    \A s \in Sessions :
        (FailedEarly(s) /\ pc'[s] # pc[s]) =>
            /\ pc'[s] = "idle"
            /\ db' = db
            /\ session_state'[s].messages = session_state[s].messages

\* C3: when RETRIEVE, BUILD_PROMPT or GENERATE fails, the exception reaches
\* the caller: no later step has run, no record is assembled, and the script's
\* run ends without a row saved or an assistant message appended.
C3_EarlyFailurePropagates == []C3_NothingLater /\ [][C3_NothingSaved]_vars

C3_Witness ==
    \E s \in Sessions :
        FailedEarly(s) /\ loc[s].failedIn = "generate" /\ loc[s].error = "APIError"

\* C4: the relevance of every assembled record and of every saved row is one
\* of RELEVANT, PARTLY_RELEVANT, NON_RELEVANT, UNKNOWN.
C4_RelevanceInEnum ==
    /\ \A s \in Sessions : pc[s] = "done" => loc[s].answer_data.relevance \in RelevanceValues
    /\ \A r \in db.rag_queries : r.relevance \in RelevanceValues

\* C5: every request of an invocation goes to the model the invocation was
\* given, the one stored as model_used.
C5_CalledModelIsModelUsed ==
    \A s \in Sessions :
        \A i \in DOMAIN loc[s].calls : loc[s].calls[i].model = loc[s].model

\* C6 as stated: the key is never read at process start, without the key no
\* client is made and no request sent, and over any sequence of generate calls
\* the key is read at most once.
C6_KeyReadAtMostOnce ==
    /\ asked = 0 => keyReads = 0
    /\ ~apiKey => (client = 0 /\ constructed = 0 /\ \A s \in Sessions : loc[s].calls = <<>>)
    /\ keyReads <= 1

C6_Lazy ==
    /\ asked = 0 => (keyReads = 0 /\ client = 0)
    /\ ~apiKey =>
          /\ client = 0
          /\ constructed = 0
          /\ \A s \in Sessions :
                /\ loc[s].calls = <<>>
                /\ (pc[s] = "failed" /\ loc[s].failedIn = "generate") =>
                       loc[s].error = "ValueError"
    /\ apiKey => keyReads <= 1

C6_ReadOnlyWithoutClient ==
    /\ keyReads' # keyReads =>
          /\ keyReads' = keyReads + 1
          /\ \E s \in Sessions :
                /\ loc[s].llm = "init"
                /\ loc'[s].llm = "call" \/ pc'[s] = "failed"
    /\ \A s \in Sessions :
          (client # 0 /\ loc[s].llm = "check") => loc'[s].llm # "init"

\* C6, amended: the key is never read at process start; a generate call reads
\* and checks it once if it finds no client; without the key that call fails
\* with the missing-credential error, no client is made and no request sent
\* (and the next call checks again); once a client exists no call reads the
\* key, so with the key present it is read once.
C6_KeyReadWhileNoClient == []C6_Lazy /\ [][C6_ReadOnlyWithoutClient]_vars

C6_Witness ==
    /\ ~apiKey
    /\ keyReads = 2
    /\ \E s \in Sessions : pc[s] = "failed" /\ loc[s].error = "ValueError"

\* C7: at most one client is ever constructed, and every request is sent with
\* that one client.
C7_OneClient ==
    /\ constructed <= 1
    /\ \A s \in Sessions : \A i \in DOMAIN loc[s].calls : loc[s].calls[i].client = 1

\* C8: with the index handle None, or the index empty, search_faq raises
\* nothing and returns no contexts, and the pipeline goes on.
C8_NoIndexNoContexts ==
    \A s \in Sessions :
        ( /\ pc[s] \notin {"new", "idle", "retrieve"}
          /\ session_state[s].collection = None \/ chroma_db = <<>>
          /\ ~(pc[s] = "failed" /\ loc[s].failedIn = "retrieve" /\ loc[s].error = "RuntimeError") )
        => /\ ~(pc[s] = "failed" /\ loc[s].failedIn = "retrieve")
           /\ loc[s].search_results = <<>>

\* The records of the file are complete and their ids pairwise distinct.
WellFormed(source) ==
    /\ source.exists
    /\ source.valid
    /\ ~HasDuplicateIds(source.data)

\* C9: for a well-formed source, whenever load_index returns a handle the
\* index holds exactly one document per record, under the record's id and
\* made from that record, however often load_index has run before.
C9_OneDocumentPerRecord ==
    (WellFormed(faq_json) /\ collection # None) =>
        /\ Len(chroma_db) = Len(faq_json.data)
        /\ \A i \in DOMAIN faq_json.data :
              /\ Cardinality({j \in DOMAIN chroma_db : chroma_db[j].id = faq_json.data[i].id}) = 1
              /\ \E j \in DOMAIN chroma_db :
                    /\ chroma_db[j].id = faq_json.data[i].id
                    /\ chroma_db[j].document =
                          <<"Question: ", faq_json.data[i].question,
                            "\nAnswer: ", faq_json.data[i].answer>>

C9_Witness ==
    /\ WellFormed(faq_json)
    /\ Len(faq_json.data) = 2
    /\ collection # None
    /\ loads >= 2

\* C10: a saved query row and a saved feedback row stay in the store,
\* unchanged, in every later state.
C10_RowsStay ==
    [][/\ db.rag_queries \subseteq db'.rag_queries
       /\ db.feedback \subseteq db'.feedback]_vars

C11_RefusedLeavesTables ==
    [][ /\ \A a, b \in db'.rag_queries : a.id = b.id => a = b
        /\ \A f \in db'.feedback :
              f.rag_query_id # NULL => \E r \in db'.rag_queries : r.id = f.rag_query_id
        /\ ( /\ call'.op = "save_query"
             /\ \E r \in db.rag_queries : r.id = call'.query_id )
            => /\ call'.raised = "UniqueViolation"
               /\ db'.rag_queries = db.rag_queries
               /\ db'.feedback = db.feedback
        /\ ( /\ call'.op = "save_feedback"
             /\ call'.query_id # NULL
             /\ ~\E r \in db.rag_queries : r.id = call'.query_id )
            => /\ call'.raised = "ForeignKeyViolation"
               /\ db'.rag_queries = db.rag_queries
               /\ db'.feedback = db.feedback ]_vars

\* The queries get_recent_queries(limit, relevance) selects from.
Matching(relevance) ==
    IF relevance # None
    THEN {q \in db.rag_queries : q.relevance = relevance}
    ELSE db.rag_queries

\* C12: get_recent_queries(limit, relevance) returns at most limit rows, newest
\* first, each of the given relevance when one is given, and every matching
\* query that fewer than limit other matching queries are as recent as is in
\* the result, whatever the number of feedback rows.
C12_RecentQueriesRepresented ==
    call.op = "get_recent_queries" =>
        LET rows == call.rows
            matching == Matching(call.relevance)
        IN  /\ Len(rows) <= call.limit
            /\ \A i, j \in DOMAIN rows :
                  i < j => rows[i].query.timestamp >= rows[j].query.timestamp
            /\ \A i \in DOMAIN rows : rows[i].query \in matching
            /\ \A q \in matching :
                  Cardinality({p \in matching \ {q} : p.timestamp >= q.timestamp})
                      < call.limit
                  => \E i \in DOMAIN rows : rows[i].query = q

\* What C12 says of the rows themselves, without the last part.
C12_AtMostLimitNewestFirst ==
    call.op = "get_recent_queries" =>
        /\ Len(call.rows) <= call.limit
        /\ \A i, j \in DOMAIN call.rows :
              i < j => call.rows[i].query.timestamp >= call.rows[j].query.timestamp
        /\ \A i \in DOMAIN call.rows : call.rows[i].query \in Matching(call.relevance)
====
